---- MODULE Spec2Model ----
(***************************************************************************)
(* Model of format_converter.py: the OSM way -> (nodes.csv, edges.csv)     *)
(* converter.  GraphWriter's state (id_map, next_index and the two output  *)
(* writers), its way() callback, and the pure helpers haversine,           *)
(* _parse_maxspeed and estimate_speed_mps.                                 *)
(*                                                                         *)
(* Representation of Python values:                                        *)
(*   - a str that the code parses (the maxspeed tag) is a sequence of      *)
(*     one-character strings, so strip/lower/endswith/replace/float are    *)
(*     computed character by character; a str that is only compared        *)
(*     (highway, oneway, tag keys) is a TLA+ string;                       *)
(*   - an optional value (None or x) is NoneVal or Some(x);                *)
(*   - a speed (m/s) is an integer count of 1/56250 m/s, in which both     *)
(*     kmh / 3.6 (= kmh * 15625 / 56250) and mph * 0.44704                 *)
(*     (= mph * 25146 / 56250) are exact;                                  *)
(*   - a latitude or longitude is an integer count of 1e-7 degrees, the    *)
(*     resolution the node row is formatted to (":.7f");                   *)
(*   - a distance is an integer count of millimetres;                      *)
(*   - an edge weight is an integer count of 1/100 s, the resolution the   *)
(*     edge row is formatted to (":.2f").                                  *)
(***************************************************************************)
EXTENDS Integers, Sequences, FiniteSets, TLC

VARIABLES id_map, next_index, n_writer, e_writer, calls, e_origin, ways,
          error, tags_in, speed_out, run2

vars == <<id_map, next_index, n_writer, e_writer, calls, e_origin, ways,
          error, tags_in, speed_out, run2>>

----------------------------------------------------------------------------
(* Bounds of the model. *)

\* number of distinct OSM node identifiers the ways may reference
NumIds == 3
\* largest number of node references in one way
MaxNodes == 3
\* number of ways in the input stream of one pass
MaxWays == 2
\* maxspeed tags carry the integers -MaxSpeedNum .. MaxSpeedNum
MaxSpeedNum == 12

----------------------------------------------------------------------------
(* Python values. *)

NoneVal == [some |-> FALSE]
Some(x) == [some |-> TRUE, v |-> x]

Abs(x) == IF x < 0 THEN -x ELSE x

\* "x = e" followed by the statements F that use x: e is computed once
Let(e, F(_)) == CHOOSE r \in {F(x) : x \in {e}} : TRUE

\* dict.get(key): the value, or None when the key is absent
get(tags, key) == IF key \in DOMAIN tags THEN Some(tags[key]) ELSE NoneVal

----------------------------------------------------------------------------
(* str methods used by _parse_maxspeed, on sequences of characters. *)

Whitespace == {" ", "\t"}

RECURSIVE lstrip(_)
lstrip(s) ==
    IF s # <<>> /\ Head(s) \in Whitespace THEN lstrip(Tail(s)) ELSE s

RECURSIVE rstrip(_)
rstrip(s) ==
    IF s # <<>> /\ s[Len(s)] \in Whitespace
    THEN rstrip(SubSeq(s, 1, Len(s) - 1))
    ELSE s

strip(s) == rstrip(lstrip(s))

LowerOf(c) ==
    CASE c = "M" -> "m" [] c = "P" -> "p" [] c = "H" -> "h"
      [] c = "K" -> "k" [] c = "N" -> "n" [] c = "O" -> "o"
      [] c = "E" -> "e" [] OTHER -> c

lower(s) == [i \in 1..Len(s) |-> LowerOf(s[i])]

startswith(s, p) == Len(p) <= Len(s) /\ SubSeq(s, 1, Len(p)) = p

endswith(s, p) ==
    Len(p) <= Len(s) /\ SubSeq(s, Len(s) - Len(p) + 1, Len(s)) = p

\* s.replace(old, ""): every non-overlapping occurrence of old, left to right
RECURSIVE replace(_, _)
replace(s, old) ==
    IF s = <<>> THEN <<>>
    ELSE IF startswith(s, old)
         THEN replace(SubSeq(s, Len(old) + 1, Len(s)), old)
         ELSE <<Head(s)>> \o replace(Tail(s), old)

Digits == {"0", "1", "2", "3", "4", "5", "6", "7", "8", "9"}

DigitVal(c) ==
    CASE c = "0" -> 0 [] c = "1" -> 1 [] c = "2" -> 2 [] c = "3" -> 3
      [] c = "4" -> 4 [] c = "5" -> 5 [] c = "6" -> 6 [] c = "7" -> 7
      [] c = "8" -> 8 [] c = "9" -> 9

RECURSIVE DigitsVal(_)
DigitsVal(s) ==
    IF s = <<>> THEN 0
    ELSE 10 * DigitsVal(SubSeq(s, 1, Len(s) - 1)) + DigitVal(s[Len(s)])

\* float(s) on the integer literals: optional surrounding whitespace, an
\* optional sign, one or more digits.  Anything else is a ValueError
\* (NoneVal).  The literals float() also accepts (a decimal point, an
\* exponent, inf, nan, underscores) are outside the inputs of the model.
float(s) ==
    LET t == strip(s)
        signed == t # <<>> /\ Head(t) \in {"+", "-"}
        body == IF signed THEN Tail(t) ELSE t
    IN  IF body # <<>> /\ \A i \in 1..Len(body) : body[i] \in Digits
        THEN Some(IF signed /\ Head(t) = "-"
                  THEN 0 - DigitsVal(body) ELSE DigitsVal(body))
        ELSE NoneVal

----------------------------------------------------------------------------
(* Speed estimation. *)

DEFAULT_SPEED_KMH ==
    [motorway |-> 110, motorway_link |-> 70, trunk |-> 90, trunk_link |-> 70,
     primary |-> 70, primary_link |-> 60, secondary |-> 60,
     secondary_link |-> 50, tertiary |-> 50, tertiary_link |-> 40,
     unclassified |-> 40, residential |-> 30, living_street |-> 10,
     service |-> 20, cycleway |-> 20, path |-> 10]

DEFAULT_FALLBACK_KMH == 50

\* kmh / 3.6, in units of 1/56250 m/s
KmhToMps(kmh) == kmh * 15625

\* mph * 0.44704, in units of 1/56250 m/s
MphToMps(mph) == mph * 25146

S_none == <<"n", "o", "n", "e">>
S_mph == <<"m", "p", "h">>
S_kmh_slash == <<"k", "m", "/", "h">>
S_kph == <<"k", "p", "h">>
S_kmh == <<"k", "m", "h">>

\* value is tags.get('maxspeed'): None or a str.  Returns None or a speed.
_parse_maxspeed(value) ==
    IF ~value.some \/ value.v = <<>> THEN NoneVal
    ELSE LET txt == lower(strip(value.v)) IN
         IF txt = S_none THEN NoneVal
         ELSE IF endswith(txt, S_mph)
         THEN LET mph == float(strip(replace(txt, S_mph)))
              IN  IF mph.some THEN Some(MphToMps(mph.v)) ELSE NoneVal
         ELSE LET txt2 == replace(replace(replace(txt, S_kmh_slash),
                                          S_kph), S_kmh)
                  kmh == float(strip(txt2))
              IN  IF kmh.some THEN Some(KmhToMps(kmh.v)) ELSE NoneVal

\* faulty variant: "if speed is not None:", which lets a zero speed through
Truthy_not_none(speed) == speed.some

\* "if speed:" is false for None and for 0.0
Truthy(speed) == speed.some /\ speed.v # 0

estimate_speed_mps(tags) ==
    LET maxspeed_raw == get(tags, "maxspeed")
        speed == _parse_maxspeed(maxspeed_raw)
        highway == get(tags, "highway")
    IN  IF Truthy(speed) THEN speed.v
        ELSE IF highway.some /\ highway.v \in DOMAIN DEFAULT_SPEED_KMH
        THEN KmhToMps(DEFAULT_SPEED_KMH[highway.v])
        ELSE KmhToMps(DEFAULT_FALLBACK_KMH)

----------------------------------------------------------------------------
(* Geometry. *)

\* Earth radius in metres
R == 6371000

\* Great-circle distance in millimetres between two coordinates given in
\* 1e-7 degrees.  All node locations of the model lie on one meridian
\* (lon1 = lon2), where dlambda = 0, a = sin(dphi/2)^2 and the result
\* 2 * R * atan2(sqrt(a), sqrt(1 - a)) is R * |dphi|, with dphi in radians:
\* R * pi / 180 metres per degree, pi taken as 355/113.
haversine(lon1, lat1, lon2, lat2) ==
    ((((R \div 1000) * 355) \div 113) * Abs(lat2 - lat1)) \div 1800

----------------------------------------------------------------------------
(* Number formatting. *)

\* n / d rounded to the nearest integer, ties to even, for d # 0
RoundDiv(n, d) ==
    LET a == Abs(n)
        b == Abs(d)
        q == a \div b
        r == a % b
        m == IF 2 * r > b \/ (2 * r = b /\ q % 2 = 1) THEN q + 1 ELSE q
    IN  IF (n < 0) # (d < 0) THEN 0 - m ELSE m

\* f"{weight:.2f}" of the quotient dist / speed, dist in millimetres and
\* speed in 1/56250 m/s: the number of hundredths of a second,
\* 100 * (dist / 1000) / (speed / 56250) = dist * 5625 / speed
FormatWeight(dist, speed) == RoundDiv(dist * 5625, speed)

----------------------------------------------------------------------------
(* The input: node references and ways, as the decoder hands them over. *)

Ids == 1..NumIds

\* With locations=True the decoder resolves a reference's location from
\* the identifier; a node missing from the extract has no valid location,
\* and reading lat or lon of it raises InvalidLocationError.
LocationValid(id) == id % 3 # 0
Lat(id) == 514400000 + 1000 * id
Lon(id) == 54700000

NodeRef(id) == [ref |-> id, valid |-> LocationValid(id),
                lat |-> Lat(id), lon |-> Lon(id)]

DigitChar(d) ==
    CASE d = 0 -> "0" [] d = 1 -> "1" [] d = 2 -> "2" [] d = 3 -> "3"
      [] d = 4 -> "4" [] d = 5 -> "5" [] d = 6 -> "6" [] d = 7 -> "7"
      [] d = 8 -> "8" [] d = 9 -> "9"

RECURSIVE NatStr(_)
NatStr(n) ==
    IF n < 10 THEN <<DigitChar(n)>>
    ELSE NatStr(n \div 10) \o <<DigitChar(n % 10)>>

\* the decimal literal of an integer
IntStr(n) == IF n < 0 THEN <<"-">> \o NatStr(0 - n) ELSE NatStr(n)

\* what may follow the number in a maxspeed tag
UnitSuffixes ==
    {<<>>, <<" ", "m", "p", "h">>, <<"m", "p", "h">>,
     <<" ", "M", "P", "H">>, <<" ", "k", "m", "/", "h">>,
     <<"k", "m", "h">>, <<" ", "k", "p", "h">>}

\* maxspeed values with no number in them, or with more than a number
OddMaxspeeds ==
    {<<>>, <<"n", "o", "n", "e">>, <<"N", "o", "n", "e">>,
     <<" ", "n", "o", "n", "e", " ">>, <<"w", "a", "l", "k">>,
     <<"m", "p", "h">>, <<"k", "m", "/", "h">>,
     <<"5", " ", "0">>, <<" ", "5", "0", " ">>, <<"+", "5", "0">>,
     <<"3", "0", ";", "5", "0">>, <<"-">>}

MaxspeedValues ==
    {IntStr(n) \o u : n \in (0 - MaxSpeedNum)..MaxSpeedNum, u \in UnitSuffixes}
        \cup OddMaxspeeds

\* highway values: the labels of the table and one that is not in it
HighwayValues == DOMAIN DEFAULT_SPEED_KMH \cup {"footway"}

\* the tag maps estimate_speed_mps is applied to
TagMaps ==
    {[k \in {} |-> 0]}
        \cup {[highway |-> h] : h \in HighwayValues}
        \cup {[maxspeed |-> m] : m \in MaxspeedValues}
        \cup {[highway |-> h, maxspeed |-> m] :
                 h \in HighwayValues, m \in MaxspeedValues}

\* the tag maps of the ways of a pass
WayTags ==
    {[k \in {} |-> 0],
     [oneway |-> "yes", maxspeed |-> <<"5", "0">>],
     [highway |-> "residential"],
     [highway |-> "residential", oneway |-> "yes"],
     [highway |-> "primary", oneway |-> "no",
      maxspeed |-> <<"3", "0", " ", "m", "p", "h">>],
     [highway |-> "footway", oneway |-> "-1", maxspeed |-> <<"0">>],
     [highway |-> "service", maxspeed |-> <<"-", "5", "0">>],
     [highway |-> "motorway", oneway |-> "yes",
      maxspeed |-> <<"n", "o", "n", "e">>]}

NodeSeqs == UNION {[1..n -> Ids] : n \in 0..MaxNodes}

Ways == [nodes : NodeSeqs, tags : WayTags]

----------------------------------------------------------------------------
(* GraphWriter.  st is the writer's state: id_map, next_index, the rows of *)
(* the two output files, and two logs that the code does not keep: calls,  *)
(* one entry per call of get_or_create_node (the identifier and the index  *)
(* returned, None when the call raised), and e_origin, for each edge row   *)
(* the way, the segment and the statement that wrote it, and the number   *)
(* of node rows that were in the node output at that time.  The variable   *)
(* ways is the part of the input stream handed over so far, and error the  *)
(* exception that came out of way(), "none" while none has.                *)

\* faulty variant: the row carries the OSM identifier, not the dense index
NodeRow_osm_id(idx, ref) == <<ref.ref, ref.lat, ref.lon>>

\* f"{idx},{osm_node_ref.lat:.7f},{osm_node_ref.lon:.7f}\n"
NodeRow(idx, ref) == <<idx, ref.lat, ref.lon>>

\* f"{u},{v},{weight:.2f}\n"
EdgeRow(u, v, weight) == <<u, v, weight>>

\* faulty variant: the node row is written on every call, not only on the first
get_or_create_node_rewrite(st, osm_node_ref) ==
    LET osm_id == osm_node_ref.ref
        logged(s, r) == [s EXCEPT !.calls = @ \o <<[ref |-> osm_id, ret |-> r]>>]
        st1 == IF osm_id \notin DOMAIN st.id_map
               THEN [st EXCEPT !.id_map = @ @@ (osm_id :> st.next_index),
                               !.next_index = @ + 1]
               ELSE st
    IN  IF ~osm_node_ref.valid
        THEN [st |-> logged(st1, NoneVal), raised |-> TRUE, ret |-> 0]
        ELSE LET st2 == [st1 EXCEPT !.n_writer =
                           Append(@, NodeRow(st1.id_map[osm_id], osm_node_ref))]
             IN  [st |-> logged(st2, Some(st2.id_map[osm_id])),
                  raised |-> FALSE, ret |-> st2.id_map[osm_id]]

\* faulty variant: next_index is incremented after the node row is written,
\* so a call that raises stores the identifier and leaves next_index
get_or_create_node_late_increment(st, osm_node_ref) ==
    LET osm_id == osm_node_ref.ref
        logged(s, r) == [s EXCEPT !.calls = @ \o <<[ref |-> osm_id, ret |-> r]>>]
    IN  IF osm_id \notin DOMAIN st.id_map
        THEN LET idx == st.next_index
                 st1 == [st EXCEPT !.id_map = @ @@ (osm_id :> idx)]
             IN  IF ~osm_node_ref.valid
                 THEN [st |-> logged(st1, NoneVal), raised |-> TRUE, ret |-> 0]
                 ELSE LET st2 == [st1 EXCEPT
                                    !.n_writer =
                                       Append(@, NodeRow(idx, osm_node_ref)),
                                    !.next_index = @ + 1]
                      IN  [st |-> logged(st2, Some(st2.id_map[osm_id])),
                           raised |-> FALSE, ret |-> st2.id_map[osm_id]]
        ELSE [st |-> logged(st, Some(st.id_map[osm_id])),
              raised |-> FALSE, ret |-> st.id_map[osm_id]]

\* Returns [st, raised, ret]: the state the call leaves, whether it raised
\* InvalidLocationError, and the index returned when it did not.
get_or_create_node(st, osm_node_ref) ==
    LET osm_id == osm_node_ref.ref
        logged(s, r) == [s EXCEPT !.calls = @ \o <<[ref |-> osm_id, ret |-> r]>>]
    IN  IF osm_id \notin DOMAIN st.id_map
        THEN LET idx == st.next_index
                 st1 == [st EXCEPT !.id_map = @ @@ (osm_id :> idx),
                                   !.next_index = @ + 1]
             IN  IF ~osm_node_ref.valid
                 THEN [st |-> logged(st1, NoneVal), raised |-> TRUE, ret |-> 0]
                 ELSE LET st2 == [st1 EXCEPT !.n_writer =
                                      Append(@, NodeRow(idx, osm_node_ref))]
                      IN  [st |-> logged(st2, Some(st2.id_map[osm_id])),
                           raised |-> FALSE, ret |-> st2.id_map[osm_id]]
        ELSE [st |-> logged(st, Some(st.id_map[osm_id])),
              raised |-> FALSE, ret |-> st.id_map[osm_id]]

\* faulty variant: only an explicit oneway=no makes the road bidirectional
bidirectional_only_no(tags) == get(tags, "oneway") = Some("no")

\* "if w.tags.get('oneway') != 'yes'": the reverse edge is written too
bidirectional(tags) == get(tags, "oneway") # Some("yes")

\* The statements under "try:" for the segment i, i+1 (i counts from 1) of
\* the k-th way of the pass.  Returns [st, exc]: the state they leave and
\* the exception they raised, "none" when they ran to the end.
try_body(st, w, k, i) ==
    LET start_node == NodeRef(w.nodes[i])
        end_node == NodeRef(w.nodes[i + 1])
    IN
    Let(get_or_create_node(st, start_node), LAMBDA c1 :
    IF c1.raised THEN [st |-> c1.st, exc |-> "InvalidLocationError"] ELSE
    Let(get_or_create_node(c1.st, end_node), LAMBDA c2 :
    IF c2.raised THEN [st |-> c2.st, exc |-> "InvalidLocationError"] ELSE
    \* haversine's arguments read lon and lat of both references
    IF ~start_node.valid \/ ~end_node.valid
    THEN [st |-> c2.st, exc |-> "InvalidLocationError"] ELSE
    Let(c1.ret, LAMBDA u :
    Let(c2.ret, LAMBDA v :
    Let(haversine(start_node.lon, start_node.lat,
                  end_node.lon, end_node.lat), LAMBDA dist :
    Let(estimate_speed_mps(w.tags), LAMBDA speed :
    Let(IF speed # 0 THEN FormatWeight(dist, speed)
                     ELSE FormatWeight(dist, KmhToMps(50)), LAMBDA weight :
    Let([c2.st EXCEPT
           !.e_writer = Append(@, EdgeRow(u, v, weight)),
           !.e_origin = Append(@, [way |-> k, seg |-> i, dir |-> "forward",
                                   node_rows |-> Len(c2.st.n_writer) - 1])],
        LAMBDA st3 :
    IF bidirectional(w.tags)
    THEN [st |-> [st3 EXCEPT
                    !.e_writer = Append(@, EdgeRow(v, u, weight)),
                    !.e_origin = Append(@, [way |-> k, seg |-> i,
                                            dir |-> "reverse",
                                            node_rows |->
                                               Len(st3.n_writer) - 1])],
          exc |-> "none"]
    ELSE [st |-> st3, exc |-> "none"]))))))))

\* faulty variant: no "except": the exception leaves the loop and way()
segment_no_except(st, w, k, i) == try_body(st, w, k, i)

\* One iteration of the loop: "except osmium.InvalidLocationError: continue"
segment(st, w, k, i) ==
    Let(try_body(st, w, k, i), LAMBDA b :
        IF b.exc = "InvalidLocationError"
        THEN [st |-> b.st, exc |-> "none"]
        ELSE b)

\* faulty variant: the segments are taken from the last to the first
RECURSIVE segments_reversed(_, _, _, _)
segments_reversed(st, w, k, i) ==
    IF i > Len(w.nodes) - 1 THEN [st |-> st, exc |-> "none"]
    ELSE Let(segments_reversed(st, w, k, i + 1), LAMBDA later :
             IF later.exc # "none" THEN later
             ELSE segment(later.st, w, k, i))

\* for i in range(len(w.nodes) - 1), from the segment i on; an exception
\* that an iteration lets through ends the loop
RECURSIVE segments(_, _, _, _)
segments(st, w, k, i) ==
    IF i > Len(w.nodes) - 1 THEN [st |-> st, exc |-> "none"]
    ELSE Let(segment(st, w, k, i), LAMBDA s :
             IF s.exc # "none" THEN s
             ELSE segments(s.st, w, k, i + 1))

\* faulty variant: no filter on the highway tag
way_no_filter(st, w, k) == segments(st, w, k, 1)

\* faulty variant: the first node of the way is registered before the loop
way_nodes_first(st, w, k) ==
    IF "highway" \notin DOMAIN w.tags THEN [st |-> st, exc |-> "none"]
    ELSE IF Len(w.nodes) = 0 THEN segments(st, w, k, 1)
    ELSE Let(get_or_create_node(st, NodeRef(w.nodes[1])), LAMBDA c :
             segments(c.st, w, k, 1))

\* way(self, w) for the k-th way of the pass
way(st, w, k) ==
    IF "highway" \notin DOMAIN w.tags THEN [st |-> st, exc |-> "none"]
    ELSE segments(st, w, k, 1)

----------------------------------------------------------------------------
(* The pass. *)

State == [id_map |-> id_map, next_index |-> next_index,
          n_writer |-> n_writer, e_writer |-> e_writer,
          calls |-> calls, e_origin |-> e_origin]

\* The driver has written the two header lines and built the GraphWriter.
InitWriter ==
    /\ id_map = [k \in {} |-> 0]
    /\ next_index = 0
    /\ n_writer = <<<<"id", "lat", "lon">>>>
    /\ e_writer = <<<<"source", "target", "weight">>>>
    /\ calls = <<>>
    /\ e_origin = <<>>
    /\ ways = <<>>
    /\ error = "none"
    /\ run2 = NoneVal

Init ==
    /\ InitWriter
    /\ tags_in = [k \in {} |-> 0]
    /\ speed_out = NoneVal

\* apply_file hands the next way of the file to the way() callback; an
\* exception that way() lets through ends the pass
Way ==
    /\ Len(ways) < MaxWays
    /\ error = "none"
    /\ \E w \in Ways :
         LET r == way(State, w, Len(ways) + 1)
             st == r.st
         IN
         /\ error' = r.exc
         /\ id_map' = st.id_map
         /\ next_index' = st.next_index
         /\ n_writer' = st.n_writer
         /\ e_writer' = st.e_writer
         /\ calls' = st.calls
         /\ e_origin' = st.e_origin
         /\ ways' = Append(ways, w)
    /\ UNCHANGED <<tags_in, speed_out, run2>>

Next == Way

Spec == Init /\ [][Next]_vars

----------------------------------------------------------------------------
(* estimate_speed_mps on its own, applied to one tag map. *)

InitSpeed ==
    /\ InitWriter
    /\ tags_in \in TagMaps
    /\ speed_out = NoneVal

Estimate ==
    /\ ~speed_out.some
    /\ speed_out' = Some(estimate_speed_mps(tags_in))
    /\ UNCHANGED <<id_map, next_index, n_writer, e_writer, calls, e_origin,
                   ways, error, tags_in, run2>>

NextSpeed == Estimate

SpecSpeed == InitSpeed /\ [][NextSpeed]_vars

----------------------------------------------------------------------------
(* Two runs of the converter over the same way stream.  The first run is   *)
(* the one above; run2 is NoneVal until the second run starts, and then    *)
(* holds the second GraphWriter instance (st), the number of ways of the   *)
(* stream it has been handed (pos) and the exception that ended its pass   *)
(* (error).  The second run may start before, between or after the ways    *)
(* of the first, and reads the stream behind it; the two runs being        *)
(* interchangeable, a second run ahead of the first is the same case.      *)

\* faulty variant: the table is a process-global singleton: a new instance
\* refers to the table and the counter of the instance built before it
GraphWriter_global_table(nw, ew) ==
    [id_map |-> id_map, next_index |-> next_index,
     n_writer |-> nw, e_writer |-> ew,
     calls |-> <<>>, e_origin |-> <<>>]

\* GraphWriter(nf, ef): __init__ keeps the two writers and sets
\* "self.id_map = {}" and "self.next_index = 0"
GraphWriter(nw, ew) ==
    [id_map |-> [k \in {} |-> 0], next_index |-> 0,
     n_writer |-> nw, e_writer |-> ew,
     calls |-> <<>>, e_origin |-> <<>>]

\* The driver of the second run writes the two header lines to its own
\* files and builds its own GraphWriter.
NewRun ==
    /\ ~run2.some
    /\ run2' = [some |-> TRUE,
                st |-> GraphWriter(<<<<"id", "lat", "lon">>>>,
                                   <<<<"source", "target", "weight">>>>),
                pos |-> 0,
                error |-> "none"]
    /\ UNCHANGED <<id_map, next_index, n_writer, e_writer, calls, e_origin,
                   ways, error, tags_in, speed_out>>

\* apply_file of the second run hands the next way of the same stream to
\* the way() callback of the second instance
Way2 ==
    /\ run2.some
    /\ run2.error = "none"
    /\ run2.pos < Len(ways)
    /\ LET r == way(run2.st, ways[run2.pos + 1], run2.pos + 1)
       IN  run2' = [run2 EXCEPT !.st = r.st,
                                !.pos = @ + 1,
                                !.error = r.exc]
    /\ UNCHANGED <<id_map, next_index, n_writer, e_writer, calls, e_origin,
                   ways, error, tags_in, speed_out>>

Next2Runs == Way \/ NewRun \/ Way2

Spec2Runs == Init /\ [][Next2Runs]_vars

----------------------------------------------------------------------------
(* Properties. *)

\* the rows below the header line
NodeRows == Tail(n_writer)
EdgeRows == Tail(e_writer)

\* the identifiers presented to get_or_create_node so far
Presented == {calls[i].ref : i \in DOMAIN calls}

\* the calls that returned, and the indices they returned
ReturnedCalls == {i \in DOMAIN calls : calls[i].ret.some}
ReturnedIdx == {calls[i].ret.v : i \in ReturnedCalls}

\* the position of the first call for the identifier of the call i
FirstCall(i) ==
    CHOOSE f \in DOMAIN calls :
        /\ calls[f].ref = calls[i].ref
        /\ \A j \in 1..(f - 1) : calls[j].ref # calls[i].ref

\* both endpoints of the segment i, i+1 of w have a location
SegAvailable(w, i) ==
    LocationValid(w.nodes[i]) /\ LocationValid(w.nodes[i + 1])

Routable(w) == "highway" \in DOMAIN w.tags

Segs(w) == 1..(Len(w.nodes) - 1)

\* the positions in the edge output of the rows of segment i of way k
RowsOf(k, i) ==
    {j \in DOMAIN e_origin : e_origin[j].way = k /\ e_origin[j].seg = i}

IsPrefix(s, t) == Len(s) <= Len(t) /\ SubSeq(t, 1, Len(s)) = s

\* C1: every identifier gets the same index on every call that returns for
\* it, indices are handed out in first-seen order, and the set of indices
\* returned so far is {0, ..., k-1}, k the number of distinct identifiers
\* presented so far.
C1_DenseStableIndices ==
    /\ \A i, j \in ReturnedCalls :
          calls[i].ref = calls[j].ref => calls[i].ret.v = calls[j].ret.v
    /\ \A i, j \in ReturnedCalls :
          FirstCall(i) < FirstCall(j) => calls[i].ret.v < calls[j].ret.v
    /\ ReturnedIdx = 0..(Cardinality(Presented) - 1)

\* C2: the node output holds one row per distinct identifier presented:
\* the number of node rows is k = next_index, and the rows carry the
\* indices 0, 1, ..., k-1 in this order.
C2_OneNodeRowPerIdentifier ==
    /\ Len(NodeRows) = Cardinality(Presented)
    /\ Len(NodeRows) = next_index
    /\ \A i \in 1..Len(NodeRows) : NodeRows[i][1] = i - 1

\* C3: every edge row written has a non-negative weight.
C3_WeightNonNegative ==
    \A j \in 1..Len(EdgeRows) : EdgeRows[j][3] >= 0

\* C4: in a highway-tagged way, a segment with an endpoint whose location
\* is unavailable writes no edge row and no error comes out of way(); every
\* segment whose two endpoints are available, in the same way and in later
\* ways, writes its edge rows.
C4_SkipUnavailableSegment ==
    /\ error = "none"
    /\ \A k \in DOMAIN ways : Routable(ways[k]) =>
          \A i \in Segs(ways[k]) :
             IF SegAvailable(ways[k], i)
             THEN RowsOf(k, i) # {}
             ELSE RowsOf(k, i) = {}

\* a way whose first segment is skipped and whose second is written, and a
\* way after a way with a skipped segment that writes its rows
C4_Witness ==
    /\ Len(ways) = 2
    /\ Routable(ways[1]) /\ Len(ways[1].nodes) = 3
    /\ ~SegAvailable(ways[1], 1) /\ SegAvailable(ways[1], 2)
    /\ RowsOf(1, 1) = {} /\ RowsOf(1, 2) # {}
    /\ Routable(ways[2]) /\ Len(ways[2].nodes) = 3
    /\ SegAvailable(ways[2], 1) /\ ~SegAvailable(ways[2], 2)
    /\ RowsOf(2, 1) # {} /\ RowsOf(2, 2) = {}

\* C5: a segment (u, v) with both locations available in a highway-tagged
\* way writes exactly the row (u, v, w) when oneway is "yes", and exactly
\* the rows (u, v, w), (v, u, w), one after the other, for any other value
\* of oneway or none.
C5_OnewayRows ==
    \A k \in DOMAIN ways : Routable(ways[k]) =>
       \A i \in Segs(ways[k]) : SegAvailable(ways[k], i) =>
          LET w == ways[k]
              u == id_map[w.nodes[i]]
              v == id_map[w.nodes[i + 1]]
              rows == RowsOf(k, i)
              first == CHOOSE j \in rows : \A j2 \in rows : j <= j2
          IN  /\ rows # {}
              /\ EdgeRows[first][1] = u /\ EdgeRows[first][2] = v
              /\ IF "oneway" \in DOMAIN w.tags /\ w.tags.oneway = "yes"
                 THEN rows = {first}
                 ELSE /\ rows = {first, first + 1}
                      /\ EdgeRows[first + 1] =
                            <<v, u, EdgeRows[first][3]>>

\* the pass has written a segment of a oneway=yes way, and segments of ways
\* with oneway absent, "no" and "-1", between distinct nodes
C5_Witness ==
    /\ Len(ways) = 2
    /\ \E k \in DOMAIN ways :
          /\ Routable(ways[k]) /\ get(ways[k].tags, "oneway") = Some("yes")
          /\ \E i \in Segs(ways[k]) :
                Cardinality(RowsOf(k, i)) = 1
                   /\ ways[k].nodes[i] # ways[k].nodes[i + 1]
    /\ \E k \in DOMAIN ways :
          /\ Routable(ways[k])
          /\ get(ways[k].tags, "oneway") \in {NoneVal, Some("no"), Some("-1")}
          /\ \E i \in Segs(ways[k]) :
                Cardinality(RowsOf(k, i)) = 2
                   /\ ways[k].nodes[i] # ways[k].nodes[i + 1]

\* C6: processing a way without a highway tag calls the allocator not once
\* and leaves the table, next_index and both outputs as they were.
C6_NoHighwayNoEffect ==
    [][(Len(ways') = Len(ways) + 1 /\ ~Routable(ways'[Len(ways')])) =>
          UNCHANGED <<id_map, next_index, n_writer, e_writer, calls, error>>]_vars

\* a way with tags and three nodes, one of them new, but no highway tag has
\* been processed
C6_Witness ==
    \E k \in DOMAIN ways :
       /\ ~Routable(ways[k])
       /\ DOMAIN ways[k].tags # {}
       /\ Len(ways[k].nodes) = 3
       /\ \E i \in 1..3 : ways[k].nodes[i] \notin DOMAIN id_map

\* the rows with the origins o are in the order of the input: by way, within
\* a way by segment, and a reverse row right after its forward row
EncounterOrder(o) ==
    /\ \A j \in 1..(Len(o) - 1) :
          \/ o[j].way < o[j + 1].way
          \/ o[j].way = o[j + 1].way /\ o[j].seg < o[j + 1].seg
          \/ /\ o[j].way = o[j + 1].way /\ o[j].seg = o[j + 1].seg
             /\ o[j].dir = "forward" /\ o[j + 1].dir = "reverse"
    /\ \A j \in 1..Len(o) : o[j].dir = "reverse" =>
          j > 1 /\ o[j - 1] = [o[j] EXCEPT !.dir = "forward"]

\* C9: both outputs only grow, by appending, and the edge rows are in the
\* order of the input: the rows of an earlier way before those of a later
\* way, within a way the rows of segment i before those of segment j > i,
\* and a reverse row right after its forward row.
C9_AppendOnlyInOrder ==
    [][/\ IsPrefix(n_writer, n_writer')
       /\ IsPrefix(e_writer, e_writer')
       /\ Len(e_origin') = Len(e_writer') - 1
       /\ EncounterOrder(e_origin')]_vars

\* two ways have written edge rows, one of them for two segments and with
\* reverse rows
C9_Witness ==
    /\ RowsOf(1, 1) # {} /\ RowsOf(1, 2) # {} /\ RowsOf(2, 1) # {}
    /\ Cardinality(RowsOf(1, 2)) = 2
    /\ Len(NodeRows) >= 2

\* C10: a call of get_or_create_node for an identifier already in the
\* table returns the stored index and changes neither the table nor
\* next_index nor the node output, also when the identifier was stored by a
\* call that raised.
C10_KnownIdentifierNoEffect ==
    /\ \A x \in DOMAIN id_map :
          LET c == get_or_create_node(State, NodeRef(x))
          IN  /\ ~c.raised
              /\ c.ret = id_map[x]
              /\ c.st.id_map = id_map
              /\ c.st.next_index = next_index
              /\ c.st.n_writer = n_writer
              /\ c.st.e_writer = e_writer
    /\ \A i \in DOMAIN calls : FirstCall(i) < i =>
          calls[i].ret = Some(id_map[calls[i].ref])

\* an identifier was stored by a call that raised, and a later call for it
\* returned its index
C10_Witness ==
    \E i, j \in DOMAIN calls :
       /\ i < j /\ calls[i].ref = calls[j].ref
       /\ i = FirstCall(i) /\ ~calls[i].ret.some
       /\ calls[j].ret = Some(id_map[calls[j].ref])

----------------------------------------------------------------------------
(* Properties of estimate_speed_mps, under SpecSpeed. *)

\* the speed of step 2 or 3 of the policy: the table's, else the fallback
HighwayOrFallback(tags) ==
    IF "highway" \in DOMAIN tags /\ tags.highway \in DOMAIN DEFAULT_SPEED_KMH
    THEN (DEFAULT_SPEED_KMH[tags.highway] * 56250 * 10) \div 36
    ELSE (50 * 56250 * 10) \div 36

WithoutMaxspeed(tags) == [k \in DOMAIN tags \ {"maxspeed"} |-> tags[k]]

MphSuffixes == {u \in UnitSuffixes : lower(u) \in {<<"m", "p", "h">>, <<" ", "m", "p", "h">>}}

\* C7: the result is the parsed maxspeed when there is one and it is not
\* zero (a bare number or one with km/h, kph or kmh divided by 3.6, one
\* with mph times 0.44704), else the table speed of the highway class
\* divided by 3.6, else 50 / 3.6; with maxspeed absent, "none", not a number
\* or zero the result is that of the same tags without maxspeed.
C7_SpeedPolicy ==
    speed_out.some =>
       /\ \A n \in (0 - MaxSpeedNum)..MaxSpeedNum : \A u \in UnitSuffixes :
             ("maxspeed" \in DOMAIN tags_in
                 /\ tags_in.maxspeed = IntStr(n) \o u /\ n # 0) =>
                speed_out.v = IF u \in MphSuffixes
                              THEN n * ((44704 * 5625) \div 10000)
                              ELSE (n * 56250 * 10) \div 36
       /\ ("maxspeed" \notin DOMAIN tags_in
              \/ tags_in.maxspeed \in
                    {IntStr(0) \o u : u \in UnitSuffixes}
                       \cup (OddMaxspeeds \ {<<" ", "5", "0", " ">>,
                                             <<"+", "5", "0">>})) =>
             /\ speed_out.v = HighwayOrFallback(tags_in)
             /\ speed_out.v = estimate_speed_mps(WithoutMaxspeed(tags_in))
       /\ ("maxspeed" \in DOMAIN tags_in
              /\ tags_in.maxspeed \in {<<" ", "5", "0", " ">>,
                                       <<"+", "5", "0">>}) =>
             speed_out.v = (50 * 56250 * 10) \div 36

\* the estimate of a tag map with maxspeed "0 mph" and a highway class of
\* the table has been computed
C7_Witness ==
    /\ speed_out.some
    /\ "maxspeed" \in DOMAIN tags_in
    /\ tags_in.maxspeed = <<"0", " ", "m", "p", "h">>
    /\ "highway" \in DOMAIN tags_in /\ tags_in.highway = "living_street"
    /\ speed_out.v = KmhToMps(10)

\* C8: estimate_speed_mps returns a strictly positive number for every tag
\* map.
C8_SpeedPositive == speed_out.some => speed_out.v > 0

----------------------------------------------------------------------------
(* Properties of the weights and of the two tables together. *)

\* the weighting modes of the configuration the specification asks for
WeightingModes == {"travel_time", "distance"}

\* the geodesic length in millimetres of the segment that wrote edge row j
RowDist(j) ==
    LET w == ways[e_origin[j].way]
        a == w.nodes[e_origin[j].seg]
        b == w.nodes[e_origin[j].seg + 1]
    IN  haversine(Lon(a), Lat(a), Lon(b), Lat(b))

\* the speed estimate of the way that wrote edge row j
RowSpeed(j) == estimate_speed_mps(ways[e_origin[j].way].tags)

\* C11: the weighting scheme follows a configuration switch: in the mode
\* travel_time every edge weight written is dist / speed (hundredths of a
\* second), in the mode distance it is dist (hundredths of a metre).  The
\* pass does not read any mode, so its rows have to fit whichever is set.
C11_WeightingSwitch ==
    \A mode \in WeightingModes : \A j \in 1..Len(EdgeRows) :
       EdgeRows[j][3] = IF mode = "travel_time"
                        THEN RoundDiv(RowDist(j) * 5625, RowSpeed(j))
                        ELSE RoundDiv(RowDist(j), 10)

\* the indices of the node rows among the first n rows of the node output
NodeIdxWritten(n) == {NodeRows[r][1] : r \in 1..n}

\* C12: the location of an identifier being fixed during the pass, the
\* source and the target of every edge row written are smaller than
\* next_index and each has a node row with that index, written before the
\* edge row.
C12_ReferentialIntegrity ==
    \A j \in 1..Len(EdgeRows) : \A c \in {1, 2} :
       /\ EdgeRows[j][c] < next_index
       /\ e_origin[j].node_rows <= Len(NodeRows)
       /\ EdgeRows[j][c] \in NodeIdxWritten(e_origin[j].node_rows)

\* an identifier without location holds index 0 and has no node row, and
\* an edge row between the two nodes with the indices 1 and 2 has been
\* written by a way that was given the identifier without location too
C12_Witness ==
    /\ \E x \in DOMAIN id_map : ~LocationValid(x) /\ id_map[x] = 0
    /\ \E j \in 1..Len(EdgeRows) :
          /\ EdgeRows[j][1] = 1 /\ EdgeRows[j][2] = 2
          /\ e_origin[j].node_rows = 2
          /\ \E i \in 1..Len(ways[e_origin[j].way].nodes) :
                ~LocationValid(ways[e_origin[j].way].nodes[i])

\* id_map maps the identifiers seen one-to-one onto 0 .. next_index-1
IndexTable ==
    /\ DOMAIN id_map = Presented
    /\ next_index = Cardinality(DOMAIN id_map)
    /\ {id_map[x] : x \in DOMAIN id_map} = 0..(next_index - 1)

\* C13: in every state, also the one a call of get_or_create_node leaves
\* that raised while formatting the node row, next_index is the number of
\* keys of id_map and id_map is a bijection from the identifiers seen onto
\* 0 .. next_index-1; next_index never decreases and no key is removed or
\* mapped to another index.
C13_TableBijection ==
    [][/\ IndexTable /\ IndexTable'
       /\ next_index' >= next_index
       /\ \A x \in DOMAIN id_map :
             x \in DOMAIN id_map' /\ id_map'[x] = id_map[x]]_vars

\* a call raised for a new identifier, which holds an index and has no
\* node row, and an identifier seen later holds the next index
C13_Witness ==
    \E x, y \in DOMAIN id_map :
       /\ ~LocationValid(x) /\ LocationValid(y)
       /\ id_map[y] = id_map[x] + 1
       /\ id_map[x] \notin NodeIdxWritten(Len(NodeRows))
       /\ \E i \in DOMAIN calls : calls[i].ref = x /\ ~calls[i].ret.some

\* the way handed over by the step, when the step is a call of way()
Handed == Len(ways') = Len(ways) + 1
LastWay == ways'[Len(ways')]

\* C14: a highway-tagged way with no or one node reference generates no
\* segment: no allocator call, no node row, no edge row, no change of the
\* table or of next_index, and no error.
C14_ShortWayNoEffect ==
    [][(Handed /\ Routable(LastWay) /\ Len(LastWay.nodes) < 2) =>
          /\ UNCHANGED <<id_map, next_index, n_writer, e_writer, calls,
                         e_origin>>
          /\ error' = "none"]_vars

\* a highway-tagged way with one reference, to an identifier not in the
\* table, and one with no reference have been processed
C14_Witness ==
    /\ Len(ways) = 2
    /\ Routable(ways[1]) /\ Len(ways[1].nodes) = 1
    /\ ways[1].nodes[1] \notin DOMAIN id_map
    /\ Routable(ways[2]) /\ Len(ways[2].nodes) = 0
    /\ calls = <<>> /\ error = "none"

\* the edge rows written by the k-th way, in the order of the edge output
WayRows(k) ==
    LET js == {j \in DOMAIN e_origin : e_origin[j].way = k}
    IN  IF js = {} THEN <<>>
        ELSE SubSeq(EdgeRows,
                    CHOOSE j \in js : \A j2 \in js : j <= j2,
                    CHOOSE j \in js : \A j2 \in js : j >= j2)

\* the segments with both locations available of the highway-tagged ways
AvailableSegs ==
    {ki \in (DOMAIN ways) \X (1..MaxNodes) :
        /\ Routable(ways[ki[1]])
        /\ ki[2] \in Segs(ways[ki[1]])
        /\ SegAvailable(ways[ki[1]], ki[2])}

\* 1 for each of them when oneway is "yes" and 2 otherwise, summed
ExpectedEdgeRows ==
    Cardinality(AvailableSegs)
       + Cardinality({ki \in AvailableSegs :
                         get(ways[ki[1]].tags, "oneway") # Some("yes")})

\* C15: edges are not deduplicated: a highway-tagged way processed a second
\* time appends the edge rows it appended the first time, in the same
\* order, adds no node row and leaves the table as it is; the number of
\* edge rows is the sum over the segments with both locations available of
\* the highway-tagged ways of 1 when oneway is "yes" and 2 otherwise.
C15_NoDeduplication ==
    [][Handed =>
          /\ Len(EdgeRows') = ExpectedEdgeRows'
          /\ \A k \in DOMAIN ways :
                (Routable(LastWay) /\ ways[k] = LastWay) =>
                   /\ e_writer' = e_writer \o WayRows(k)
                   /\ UNCHANGED <<n_writer, id_map, next_index>>]_vars

\* the state of a run that has been handed the ways of the stream one by
\* one, starting from state st
RECURSIVE RunFrom(_, _, _)
RunFrom(st, stream, k) ==
    IF k > Len(stream) THEN st
    ELSE RunFrom(way(st, stream[k], k).st, stream, k + 1)

\* the state a run starts from: the empty table, next_index 0, and the two
\* header lines
Fresh ==
    [id_map |-> [k \in {} |-> 0], next_index |-> 0,
     n_writer |-> <<<<"id", "lat", "lon">>>>,
     e_writer |-> <<<<"source", "target", "weight">>>>,
     calls |-> <<>>, e_origin |-> <<>>]

\* the variables of the first run
run1 == <<id_map, next_index, n_writer, e_writer, calls, e_origin, ways,
          error>>

\* C16: a run is a function of its way stream.  Each run starts from an
\* empty table with next_index 0; the second run, whenever it started and
\* however its steps interleave with the first's, is in the state that
\* the ways it has been handed determine, has after p ways written node and
\* edge rows that the first run wrote in the same positions, and after the
\* same ways has the same rows, the same table and the same next_index; a
\* step of one run changes nothing of the other.
C16_Deterministic ==
    /\ [](/\ Len(ways) = 0 =>
               id_map = [k \in {} |-> 0] /\ next_index = 0
          /\ error = "none" => State = RunFrom(Fresh, ways, 1)
          /\ (run2.some /\ run2.error = "none") =>
               run2.st = RunFrom(Fresh, SubSeq(ways, 1, run2.pos), 1)
          /\ run2.some =>
               /\ run2.pos = 0 =>
                    /\ run2.st.id_map = [k \in {} |-> 0]
                    /\ run2.st.next_index = 0
               /\ IsPrefix(run2.st.n_writer, n_writer)
               /\ IsPrefix(run2.st.e_writer, e_writer)
               /\ run2.pos = Len(ways) =>
                    /\ run2.st.n_writer = n_writer
                    /\ run2.st.e_writer = e_writer
                    /\ run2.st.id_map = id_map
                    /\ run2.st.next_index = next_index
                    /\ run2.error = error)
    /\ [][/\ run2' # run2 => UNCHANGED run1
          /\ run1' # run1 => UNCHANGED run2]_vars

\* the second run started after the first had filled its table, and both
\* have processed the same two ways, one of them with a reference without
\* location, and have written the same two node rows and edge rows
C16_Witness ==
    /\ run2.some /\ run2.pos = 2 /\ Len(ways) = 2
    /\ \E x \in DOMAIN id_map : ~LocationValid(x)
    /\ Len(NodeRows) = 2 /\ Len(EdgeRows) >= 2
    /\ run2.st.n_writer = n_writer /\ run2.st.e_writer = e_writer
    /\ run2.st.id_map = id_map

====
